---- MODULE Spec2Model ----
(***************************************************************************)
(* Embedding pipeline (embeddings.py), index build (build_index.py) and    *)
(* similarity query (search_index.py) over one record store and the two    *)
(* files of the index directory (patient.index, index_mapping.json).       *)
(*                                                                         *)
(* Vectors are fixed-point: a stored embedding is a tuple of integers, an  *)
(* L2-normalised vector is a tuple in units of 1/Unit, an inner product of *)
(* two normalised vectors is in units of 1/(Unit*Unit).  The embeddings of *)
(* the model are multiples of Pythagorean vectors of norm Unit, so the     *)
(* normalisation is exact.                                                 *)
(***************************************************************************)
EXTENDS Integers, Sequences, FiniteSets, TLC

\* ------------------------------------------------------------------ bounds
NPatients == 7        \* records of the store
MaxBuilds == 2        \* runs of build_index.main
MaxNew == 2           \* records named by the sentence file of this run
MaxInputs == 10       \* entries of the sentence file when the pipeline runs alone

\* --------------------------------------------------------- program constants
SEARCH_K == 6         \* index.search(search_vector, 6)
BATCH_SIZE == 8
ID_WIDTH == 4         \* raw_id.zfill(4)
Unit == 5             \* the value 1.0 of a normalised component

VARIABLES
    store,        \* the patients collection, in natural (insertion) order
    indexFile,    \* patient.index: NoIndex or [gen, d, ntotal, codes]
    mappingFile,  \* index_mapping.json: NoMapping or [writer, gen, members]
    patient_data, \* the sentence file loaded by embeddings.py
    embPc, embI, embJ, embVectors, embMapping,
    \* buildDocs: the records the cursor yielded; builds: the run's number
    buildPc, buildDocs, buildEmb, buildMap, buildExit, builds,
    \* qHits: what index.search returned; qMapSrc: the run that wrote qMap;
    \* qRead: the files opened so far
    \* search_vector: the query vector as index.search receives it
    qPc, qId, qVec, qIndex, qMap, qMapSrc, qHits, results, qOutcome, qExit, qRead,
    search_vector

embVars == <<embPc, embI, embJ, embVectors, embMapping>>
buildVars == <<buildPc, buildDocs, buildEmb, buildMap, buildExit, builds>>
queryVars == <<qPc, qId, qVec, qIndex, qMap, qMapSrc, qHits, results, qOutcome, qExit, qRead,
               search_vector>>
fileVars == <<indexFile, mappingFile>>
vars == <<store, indexFile, mappingFile, patient_data, embVars, buildVars, queryVars>>

\* ------------------------------------------------------------------ values
Min(a, b) == IF a < b THEN a ELSE b

\* str.zfill: left-pad a digit string with zeros up to the width
zfill(s, w) ==
    IF Len(s) >= w THEN s
    ELSE [i \in 1..w |-> IF i <= w - Len(s) THEN 0 ELSE s[i - (w - Len(s))]]

\* str(idx): the decimal digits of an ordinal, with its sign
RECURSIVE Digits(_)
Digits(n) == IF n < 10 THEN <<n>> ELSE Digits(n \div 10) \o <<n % 10>>

str(i) == IF i < 0 THEN <<"-">> \o Digits(0 - i) ELSE Digits(i)

\* the identifier of the p-th record as feature_engineering stores it ("0001")
PatientId(p) == zfill(Digits(p), ID_WIDTH)

\* f"vec_patient-{patient_id}_{EMBEDDING_VERSION}"
VectorIdOf(pid) == <<"vec_patient", pid, "v1">>

NoVectorId == <<>>
NoVector == <<>>

\* the mean of the token rows of sentence s (sentences are numbered)
VectorTable == << <<3, 4>>, <<6, 8>>, <<4, 3>>, <<5, 0>>, <<0, 5>>, <<8, 6>>, <<10, 0>> >>

ModelVector(s) == VectorTable[((s - 1) % Len(VectorTable)) + 1]

\* ------------------------------------------------------------ vector maths
RECURSIVE SumSeq(_)
SumSeq(s) == IF s = <<>> THEN 0 ELSE Head(s) + SumSeq(Tail(s))

\* ------------------------------------------------------------ the encoder
\* A text is modelled by the rows of last_hidden_state at its real tokens
\* (tokenizer and model are external).  The text of sentence s has one, two
\* or three tokens whose mean is ModelVector(s).
Scaled(c, v) == [i \in 1..Len(v) |-> c * v[i]]

ModelTokens(s) ==
    LET v == ModelVector(s)
    IN  IF s % 3 = 1 THEN <<v>>
        ELSE IF s % 3 = 2 THEN <<Scaled(2, v), Scaled(0, v)>>
        ELSE <<v, Scaled(2, v), Scaled(0, v)>>

\* the row the model emits at a padding position (not zero)
PadRow(d) == [c \in 1..d |-> 9]

\* padding=True: every text is padded to the longest of the batch
RECURSIVE MaxLen(_)
MaxLen(texts) ==
    IF texts = <<>> THEN 0
    ELSE LET m == MaxLen(Tail(texts))
         IN  IF Len(Head(texts)) > m THEN Len(Head(texts)) ELSE m

\* inputs["attention_mask"] and outputs.last_hidden_state of one text
attention_mask(text, L) == [t \in 1..L |-> IF t <= Len(text) THEN 1 ELSE 0]

last_hidden_state(text, L) ==
    [t \in 1..L |-> IF t <= Len(text) THEN text[t] ELSE PadRow(Len(text[1]))]

\* summed / tf.maximum(counts, 1e-9), to the unit
Divide(x, n) == IF n >= 1 THEN x \div n ELSE x * 1000000000

\* the mean over every position, padding included
MeanPoolUnmasked(H, M) ==
    LET d == Len(H[1])
    IN  [c \in 1..d |-> SumSeq([t \in 1..Len(H) |-> H[t][c]]) \div Len(H)]

\* the masked mean of one text: reduce_sum(token_embeddings * mask_expanded)
\* over reduce_sum(mask_expanded)
MeanPool(H, M) ==
    LET d == Len(H[1])
        summed == [c \in 1..d |-> SumSeq([t \in 1..Len(H) |-> H[t][c] * M[t]])]
        counts == SumSeq(M)
    IN  [c \in 1..d |-> Divide(summed[c], counts)]

\* generate_embeddings: one vector per text, in the order of the batch
generate_embeddings(texts) ==
    LET L == MaxLen(texts)
    IN  [j \in 1..Len(texts) |->
            MeanPool(last_hidden_state(texts[j], L), attention_mask(texts[j], L))]

Dot(a, b) == SumSeq([i \in 1..Len(a) |-> a[i] * b[i]])

ISqrt(n) == CHOOSE r \in 0..n : r * r <= n /\ (r + 1) * (r + 1) > n

\* faiss.normalize_L2: v / ||v||, a zero vector is left as it is
normalize_L2(v) ==
    LET nr == ISqrt(Dot(v, v))
    IN  IF nr = 0 THEN v ELSE [i \in 1..Len(v) |-> (v[i] * Unit) \div nr]

\* the score of an empty result slot (below every inner product)
MinScore == 0 - (Unit * Unit) - 1

EmptySlot == [row |-> -1, score |-> MinScore]

\* IndexFlatIP.search: the k rows of highest inner product, best first, the
\* order among rows of equal score being the library's; empty slots are -1
RECURSIVE TopK(_, _, _, _)
TopK(rows, q, remaining, k) ==
    IF k = 0 THEN {<<>>}
    ELSE IF remaining = {} THEN {[i \in 1..k |-> EmptySlot]}
    ELSE LET sc(i) == Dot(rows[i + 1], q)
             best == CHOOSE i \in remaining : \A j \in remaining : sc(j) <= sc(i)
         IN  UNION { { <<[row |-> i, score |-> sc(i)]>> \o t :
                         t \in TopK(rows, q, remaining \ {i}, k - 1) } :
                     i \in {j \in remaining : sc(j) = sc(best)} }

IndexSearch(rows, q, k) == TopK(rows, q, 0..(Len(rows) - 1), k)

\* f"{dist:.4f}": the score in units of 1/10000
Format4(score) == (score * 10000) \div (Unit * Unit)

\* ------------------------------------------------------------------ store
NewDoc(p) ==
    [patient_id |-> PatientId(p), has_embedding |-> FALSE,
     embedding |-> NoVector, vector_id |-> NoVectorId]

\* collection.find_one({"patient_id": pid}): the first match, or none
Matches(pid) == {n \in 1..Len(store) : store[n].patient_id = pid}

HasDoc(pid) == Matches(pid) # {}

find_one(pid) == store[CHOOSE n \in Matches(pid) : \A m \in Matches(pid) : n <= m]

\* collection.update_one({"patient_id": pid}, {"$set": ...}, upsert=False)
update_one(st, pid, vec) ==
    LET hit == {n \in 1..Len(st) : st[n].patient_id = pid}
        first == CHOOSE n \in hit : \A m \in hit : n <= m
    IN  IF hit = {} THEN st
        ELSE [st EXCEPT ![first] = [@ EXCEPT !.has_embedding = TRUE,
                                              !.embedding = vec,
                                              !.vector_id = VectorIdOf(pid)]]

\* collection.find({"embedding": {"$exists": True}}): the cursor, in store order
RECURSIVE Cursor(_)
Cursor(st) ==
    IF st = <<>> THEN <<>>
    ELSE IF Head(st).has_embedding THEN <<Head(st)>> \o Cursor(Tail(st))
    ELSE Cursor(Tail(st))

\* ------------------------------------------------------------------ files
Keys(n) == {str(i) : i \in 0..(n - 1)}

NoIndex == [exists |-> FALSE]
NoMapping == [exists |-> FALSE]

RECURSIVE Flatten(_)
Flatten(rows) == IF rows = <<>> THEN <<>> ELSE Head(rows) \o Flatten(Tail(rows))

\* faiss.write_index of an IndexFlatIP: dimension, row count and the flat codes
write_index(index, gen) ==
    [exists |-> TRUE, gen |-> gen, d |-> index.d, ntotal |-> index.ntotal,
     codes |-> Flatten(index.rows)]

\* the flat codes read column by column
ReadIndexByColumn(file) ==
    [d |-> file.d, ntotal |-> file.ntotal,
     rows |-> [i \in 1..file.ntotal |->
                 [c \in 1..file.d |-> file.codes[(c - 1) * file.ntotal + i]]]]

\* faiss.read_index: the rows cut out of the flat codes
read_index(file) ==
    [d |-> file.d, ntotal |-> file.ntotal,
     rows |-> [i \in 1..file.ntotal |->
                 [c \in 1..file.d |-> file.codes[(i - 1) * file.d + c]]]]

\* json.dump(index_mapping): the members of one JSON object, key and value
write_mapping(entries, writer, gen) ==
    [exists |-> TRUE, writer |-> writer, gen |-> gen,
     members |-> {<<k, entries[k]>> : k \in DOMAIN entries}]

\* json.load: the dict rebuilt from the members
load_mapping(file) ==
    [k \in {m[1] : m \in file.members} |-> (CHOOSE m \in file.members : m[1] = k)[2]]

\* a mapping entry as build_index writes it (an object) and as embeddings.py
\* writes it (a bare string)
DictEntry(doc) == [kind |-> "dict", patient_id |-> doc.patient_id, vector_id |-> doc.vector_id]
StrEntry(vid) == [kind |-> "str", patient_id |-> <<>>, vector_id |-> vid]

EmptyDict == [k \in {} |-> StrEntry(NoVectorId)]

\* ------------------------------------------------------------------ init
\* the sentence of every record, in store order
FullData == [p \in 1..NPatients |-> [patient_id |-> PatientId(p), sentence |-> ModelTokens(p)]]

\* the store after embeddings.py has run over the first k sentences
EmbeddedStore(k) ==
    [p \in 1..NPatients |->
        IF p <= k
        THEN [patient_id |-> PatientId(p), has_embedding |-> TRUE,
              embedding |-> generate_embeddings(<<FullData[p].sentence>>)[1],
              vector_id |-> VectorIdOf(PatientId(p))]
        ELSE NewDoc(p)]

\* the mapping file that run left (none before the first run)
EmbeddedMapping(k) ==
    IF k = 0 THEN NoMapping
    ELSE write_mapping([key \in Keys(k) |->
                          StrEntry(VectorIdOf(PatientId(CHOOSE p \in 1..k : str(p - 1) = key)))],
                       "embed", 0)

\* how many records earlier runs have embedded: none, or all but the last two
InitialEmbedded == {0, NPatients - 2}

NoHits == <<>>

\* which run wrote the mapping a query holds (none yet)
NoSource == [writer |-> "none", gen |-> 0]

\* no program has run yet
ProcessesIdle ==
    /\ embPc = "idle" /\ embI = 0 /\ embJ = 0 /\ embVectors = <<>>
    /\ embMapping = EmptyDict
    /\ buildPc = "idle" /\ buildDocs = <<>> /\ buildEmb = <<>> /\ buildMap = EmptyDict
    /\ buildExit = "none" /\ builds = 0
    /\ qPc = "idle" /\ qId = <<>> /\ qVec = NoVector
    /\ qIndex = [d |-> 0, ntotal |-> 0, rows |-> <<>>, gen |-> 0] /\ qMap = EmptyDict
    /\ qMapSrc = NoSource
    /\ qHits = NoHits /\ results = <<>> /\ qOutcome = "none" /\ qExit = "none"
    /\ qRead = {} /\ search_vector = NoVector

Init ==
    /\ \E k \in InitialEmbedded :
         /\ store = EmbeddedStore(k)
         /\ mappingFile = EmbeddedMapping(k)
         /\ patient_data = SubSeq(FullData, k + 1, Min(k + MaxNew, NPatients))
    /\ indexFile = NoIndex
    /\ ProcessesIdle

\* the sentence files of a pipeline that runs alone over an unembedded store:
\* n entries whose identifiers either come round again after the last record
\* of the store ("cycle": duplicates) or run on past it ("past": no record)
InputId(kind, p) ==
    IF kind = "cycle" THEN PatientId(((p - 1) % NPatients) + 1) ELSE PatientId(p)

InputList(kind, n) ==
    [p \in 1..n |-> [patient_id |-> InputId(kind, p), sentence |-> ModelTokens(p)]]

EmbedInputs == {InputList(kind, n) : kind \in {"cycle", "past"}, n \in 0..MaxInputs}

InitEmbed ==
    /\ store = EmbeddedStore(0)
    /\ mappingFile = NoMapping
    /\ indexFile = NoIndex
    /\ patient_data \in EmbedInputs
    /\ ProcessesIdle

\* -------------------------------------------------- embeddings.py (pipeline)
\* module start: load the sentence file, index_mapping = {}, enter the loop
EmbedStart ==
    /\ embPc \in {"idle", "done"}
    /\ embMapping' = EmptyDict
    /\ embI' = 0 /\ embJ' = 0 /\ embVectors' = <<>>
    /\ embPc' = IF Len(patient_data) > 0 THEN "batch" ELSE "save"
    /\ UNCHANGED <<store, fileVars, patient_data, buildVars, queryVars>>

\* the slice without its upper end (patient_data[i:])
BatchToEnd(i) == SubSeq(patient_data, i + 1, Len(patient_data))

\* patient_data[i : i + BATCH_SIZE]
Batch(i) == SubSeq(patient_data, i + 1, Min(i + BATCH_SIZE, Len(patient_data)))

\* one turn of the outer loop up to the call of the encoder
EmbedBatch ==
    /\ embPc = "batch"
    /\ embVectors' = generate_embeddings([n \in 1..Len(Batch(embI)) |-> Batch(embI)[n].sentence])
    /\ embJ' = 0
    /\ embPc' = "update"
    /\ UNCHANGED <<store, fileVars, patient_data, embI, embMapping, buildVars, queryVars>>

\* the ordinal of vector j of the batch that starts at i, counted from batch
\* start only
FaissIndexInBatch(i, j) == j

\* faiss_index = i + j
faiss_index(i, j) == i + j

\* one turn of the inner loop: the mapping entry and the store update of
\* vector j, then the next vector, the next batch or the end of the loop
EmbedUpdate ==
    /\ embPc = "update"
    /\ LET pid == Batch(embI)[embJ + 1].patient_id
           vec == embVectors[embJ + 1]
       IN  /\ embMapping' = (str(faiss_index(embI, embJ)) :> StrEntry(VectorIdOf(pid)))
                                @@ embMapping
           /\ store' = update_one(store, pid, vec)
    /\ IF embJ + 1 < Len(embVectors)
       THEN /\ embJ' = embJ + 1
            /\ UNCHANGED <<embI, embPc>>
       ELSE /\ embJ' = 0
            /\ embI' = embI + BATCH_SIZE
            /\ embPc' = IF embI + BATCH_SIZE < Len(patient_data) THEN "batch" ELSE "save"
    /\ UNCHANGED <<fileVars, patient_data, embVectors, buildVars, queryVars>>

\* json.dump(index_mapping) into MAPPING_FILE
EmbedSave ==
    /\ embPc = "save"
    /\ mappingFile' = write_mapping(embMapping, "embed", 0)
    /\ embPc' = "done"
    /\ UNCHANGED <<store, indexFile, patient_data, embI, embJ, embVectors, embMapping,
                   buildVars, queryVars>>

\* ------------------------------------------------------ build_index.main
\* the cursor loop: embeddings and index_mapping, row by row
BuildEmbeddings(docs) == [i \in 1..Len(docs) |-> docs[i].embedding]

\* the mapping with its ordinals counted from one (enumerate(cursor, 1))
BuildMappingFromOne(docs) ==
    [k \in {str(i) : i \in 1..Len(docs)} |->
        DictEntry(docs[CHOOSE i \in 1..Len(docs) : str(i) = k])]

BuildMapping(docs) == [k \in Keys(Len(docs)) |->
                         DictEntry(docs[CHOOSE i \in 1..Len(docs) : str(i - 1) = k])]

\* the exit status of a run that returns after finding no embeddings
EmptyInputExit == "zero"

\* find, the cursor loop and the test for no embeddings
BuildFetch ==
    /\ buildPc \in {"idle", "done"}
    /\ builds < MaxBuilds
    /\ builds' = builds + 1
    /\ LET docs == Cursor(store)
       IN  /\ buildDocs' = docs
           /\ buildEmb' = BuildEmbeddings(docs)
           /\ buildMap' = BuildMapping(docs)
           /\ IF docs = <<>>
              THEN buildPc' = "done" /\ buildExit' = EmptyInputExit
              ELSE buildPc' = "fetched" /\ buildExit' = "none"
    /\ UNCHANGED <<store, fileVars, patient_data, embVars, queryVars>>

\* np.vstack, faiss.normalize_L2, IndexFlatIP(d), index.add
BuildIndex(embeddings) ==
    [d |-> Len(embeddings[1]), ntotal |-> Len(embeddings),
     rows |-> [i \in 1..Len(embeddings) |-> normalize_L2(embeddings[i])]]

\* np.vstack accepting arrays of any lengths
VstackNeverRaises(embeddings) == FALSE

\* np.vstack raises when the arrays are not all of one length
VstackRaises(embeddings) ==
    \E i \in 1..Len(embeddings) : Len(embeddings[i]) # Len(embeddings[1])

\* vstack, the index in memory and faiss.write_index(index, FAISS_INDEX_FILE)
BuildWriteIndex ==
    /\ buildPc = "fetched"
    /\ IF VstackRaises(buildEmb)
       THEN /\ buildPc' = "done" /\ buildExit' = "nonzero"
            /\ UNCHANGED indexFile
       ELSE /\ indexFile' = write_index(BuildIndex(buildEmb), builds)
            /\ buildPc' = "wroteIndex"
            /\ UNCHANGED buildExit
    /\ UNCHANGED <<store, mappingFile, patient_data, embVars, buildDocs, buildEmb,
                   buildMap, builds, queryVars>>

\* the store raises while the cursor is read, after n records
BuildCursorFails ==
    /\ buildPc \in {"idle", "done"}
    /\ builds < MaxBuilds
    /\ builds' = builds + 1
    /\ \E n \in 0..Len(Cursor(store)) :
         LET docs == SubSeq(Cursor(store), 1, n)
         IN  /\ buildDocs' = docs
             /\ buildEmb' = BuildEmbeddings(docs)
             /\ buildMap' = BuildMapping(docs)
    /\ buildPc' = "done"
    /\ buildExit' = "nonzero"
    /\ UNCHANGED <<store, fileVars, patient_data, embVars, queryVars>>

\* json.dump(index_mapping) into MAPPING_FILE, and the normal return
BuildWriteMapping ==
    /\ buildPc = "wroteIndex"
    /\ mappingFile' = write_mapping(buildMap, "build", builds)
    /\ buildPc' = "done"
    /\ buildExit' = "zero"
    /\ UNCHANGED <<store, indexFile, patient_data, embVars, buildDocs, buildEmb, buildMap,
                   builds, queryVars>>

\* the process is terminated between two of its steps
BuildKill ==
    /\ buildPc \in {"fetched", "wroteIndex"}
    /\ buildPc' = "done"
    /\ buildExit' = "killed"
    /\ UNCHANGED <<store, fileVars, patient_data, embVars, buildDocs, buildEmb, buildMap,
                   builds, queryVars>>

\* the build and the query over a store that no pipeline run changes: the
\* records of ArtifactSlots hold no embedding or one of ArtifactEmbeddings
\* (unit, longer than unit, zero, of another dimension), the others none
ArtifactEmbeddings == {<<3, 4>>, <<6, 8>>, <<0, 0>>, <<5>>}

ArtifactSlots == {1, 2, NPatients}

StoredDoc(p, v) ==
    IF v = NoVector THEN NewDoc(p)
    ELSE [patient_id |-> PatientId(p), has_embedding |-> TRUE,
          embedding |-> v, vector_id |-> VectorIdOf(PatientId(p))]

ArtifactStores ==
    { [p \in 1..NPatients |-> IF p \in ArtifactSlots THEN StoredDoc(p, f[p]) ELSE NewDoc(p)] :
        f \in [ArtifactSlots -> ArtifactEmbeddings \cup {NoVector}] }

\* the record an earlier build indexed, before the store took its present state
EarlierDocs == <<StoredDoc(1, <<4, 3>>)>>

InitArtifact ==
    /\ store \in ArtifactStores
    /\ \E earlier \in BOOLEAN :
         IF earlier
         THEN /\ indexFile = write_index(BuildIndex(BuildEmbeddings(EarlierDocs)), 0)
              /\ mappingFile = write_mapping(BuildMapping(EarlierDocs), "build", 0)
         ELSE /\ indexFile = NoIndex
              /\ mappingFile = NoMapping
    /\ patient_data = <<>>
    /\ ProcessesIdle

\* ------------------------------------------------------ search_index.main
\* what the operator may type at the prompt
RawIds == {<<1>>, <<0, 1>>, <<0, 0, 0, 0, 1>>, <<NPatients>>, <<0>>}

NoIndexObject == [d |-> 0, ntotal |-> 0, rows |-> <<>>, gen |-> 0]

\* the test without its "embedding" not in patient half
NotFoundNoRecordOnly(pid) == ~HasDoc(pid)

\* the test that ends the query before any file is opened
NotFound(pid) == ~HasDoc(pid) \/ ~find_one(pid).has_embedding

\* input, zfill, find_one and the not-found return
QueryStart ==
    /\ qPc \in {"idle", "done"}
    /\ \E raw \in RawIds :
         LET patient_id == zfill(raw, ID_WIDTH)
         IN  /\ qId' = patient_id
             /\ IF NotFound(patient_id)
                THEN /\ qPc' = "done" /\ qOutcome' = "notfound" /\ qExit' = "zero"
                     /\ qVec' = NoVector
                ELSE /\ qPc' = "found" /\ qOutcome' = "none" /\ qExit' = "none"
                     /\ qVec' = find_one(patient_id).embedding
    /\ qIndex' = NoIndexObject /\ qMap' = EmptyDict /\ qMapSrc' = NoSource /\ qHits' = NoHits
    /\ results' = <<>> /\ qRead' = {} /\ search_vector' = NoVector
    /\ UNCHANGED <<store, fileVars, patient_data, embVars, buildVars>>

\* faiss.read_index(FAISS_INDEX_FILE); a missing file raises
QueryReadIndex ==
    /\ qPc = "found"
    /\ qRead' = qRead \cup {"index"}
    /\ IF indexFile.exists
       THEN /\ qIndex' = read_index(indexFile) @@ [gen |-> indexFile.gen]
            /\ qPc' = "readIndex"
            /\ UNCHANGED <<qOutcome, qExit>>
       ELSE /\ qPc' = "done" /\ qOutcome' = "error" /\ qExit' = "nonzero"
            /\ UNCHANGED qIndex
    /\ UNCHANGED <<store, fileVars, patient_data, embVars, buildVars, qId, qVec, qMap,
                   qMapSrc, qHits, results, search_vector>>

\* open(MAPPING_FILE), json.load; a missing file raises
QueryReadMapping ==
    /\ qPc = "readIndex"
    /\ qRead' = qRead \cup {"mapping"}
    /\ IF mappingFile.exists
       THEN /\ qMap' = load_mapping(mappingFile)
            /\ qMapSrc' = [writer |-> mappingFile.writer, gen |-> mappingFile.gen]
            /\ qPc' = "loaded"
            /\ UNCHANGED <<qOutcome, qExit>>
       ELSE /\ qPc' = "done" /\ qOutcome' = "error" /\ qExit' = "nonzero"
            /\ UNCHANGED <<qMap, qMapSrc>>
    /\ UNCHANGED <<store, fileVars, patient_data, embVars, buildVars, qId, qVec, qIndex,
                   qHits, results, search_vector>>

\* index_mapping.get(str(idx)) is None
Unmapped(map, hit) == str(hit.row) \notin DOMAIN map

\* the skip without the test of the query's own identifier
SkippedUnmappedOnly(map, hit, patient_id) == Unmapped(map, hit)

\* the rows the loop skips: unmapped, or mapped to the query's own identifier
Skipped(map, hit, patient_id) ==
    Unmapped(map, hit) \/ map[str(hit.row)].patient_id = patient_id

\* index_mapping[str(idx)] instead of .get: an unmapped row raises too
RaisesOnUnmapped(map, hits) ==
    \E n \in 1..Len(hits) :
        \/ Unmapped(map, hits[n])
        \/ map[str(hits[n].row)].kind = "str"

\* map_data["patient_id"] on an entry that is a string, or .get on a record
\* that find_one did not find, raises
Raises(map, hits) ==
    \E n \in 1..Len(hits) :
        /\ ~Unmapped(map, hits[n])
        /\ \/ map[str(hits[n].row)].kind = "str"
           \/ /\ map[str(hits[n].row)].patient_id # qId
              /\ ~HasDoc(map[str(hits[n].row)].patient_id)

\* the loop over zip(distances[0], indices[0]): the rows kept, in order
RECURSIVE Collect(_, _, _)
Collect(map, hits, patient_id) ==
    IF hits = <<>> THEN <<>>
    ELSE IF Skipped(map, Head(hits), patient_id)
         THEN Collect(map, Tail(hits), patient_id)
         ELSE <<[patient_id |-> map[str(Head(hits).row)].patient_id,
                 score |-> Format4(Head(hits).score),
                 row |-> Head(hits).row]>>
              \o Collect(map, Tail(hits), patient_id)

\* the stored embedding handed to the search as it is
RawVector(v) == v

\* np.array(patient["embedding"]).reshape(1, -1) and faiss.normalize_L2 on it
NormalizedVector(v) == normalize_L2(v)

\* normalize_L2, index.search, the result loop and the table
QuerySearch ==
    /\ qPc = "loaded"
    /\ qPc' = "done"
    /\ search_vector' = NormalizedVector(qVec)
    /\ IF Len(qVec) # qIndex.d
       THEN /\ qOutcome' = "error" /\ qExit' = "nonzero"
            /\ UNCHANGED <<qHits, results>>
       ELSE \E hits \in IndexSearch(qIndex.rows, search_vector', SEARCH_K) :
              /\ qHits' = hits
              /\ IF Raises(qMap, hits)
                 THEN /\ qOutcome' = "error" /\ qExit' = "nonzero"
                      /\ UNCHANGED results
                 ELSE /\ results' = Collect(qMap, hits, qId)
                      /\ qOutcome' = "ok" /\ qExit' = "zero"
    /\ UNCHANGED <<store, fileVars, patient_data, embVars, buildVars, qId, qVec, qIndex,
                   qMap, qMapSrc, qRead>>

\* ------------------------------------------------------------ specification
Next ==
    \/ EmbedStart
    \/ EmbedBatch
    \/ EmbedUpdate
    \/ EmbedSave
    \/ BuildFetch
    \/ BuildWriteIndex
    \/ BuildWriteMapping
    \/ BuildKill
    \/ QueryStart
    \/ QueryReadIndex
    \/ QueryReadMapping
    \/ QuerySearch

Spec == Init /\ [][Next]_vars

\* the three programs run one after another, each to its end (the operator
\* starts a program only when no other is running, and kills none)
EmbedAtRest == embPc \in {"idle", "done"}
BuildAtRest == buildPc \in {"idle", "done"}
QueryAtRest == qPc \in {"idle", "done"}

SeqEmbedStart == BuildAtRest /\ QueryAtRest /\ EmbedStart
SeqBuildFetch == EmbedAtRest /\ QueryAtRest /\ BuildFetch
SeqQueryStart == EmbedAtRest /\ BuildAtRest /\ QueryStart

NextSeq ==
    \/ SeqEmbedStart
    \/ EmbedBatch
    \/ EmbedUpdate
    \/ EmbedSave
    \/ SeqBuildFetch
    \/ BuildWriteIndex
    \/ BuildWriteMapping
    \/ SeqQueryStart
    \/ QueryReadIndex
    \/ QueryReadMapping
    \/ QuerySearch

SpecSeq == Init /\ [][NextSeq]_vars

\* the pipeline alone, over every sentence file of EmbedInputs
NextEmbed ==
    \/ EmbedStart
    \/ EmbedBatch
    \/ EmbedUpdate
    \/ EmbedSave

SpecEmbed == InitEmbed /\ [][NextEmbed]_vars

\* the build, with a store that may raise, and the query, over every store of
\* ArtifactStores
NextArtifact ==
    \/ BuildFetch
    \/ BuildCursorFails
    \/ BuildWriteIndex
    \/ BuildWriteMapping
    \/ QueryStart
    \/ QueryReadIndex
    \/ QueryReadMapping
    \/ QuerySearch

SpecArtifact == InitArtifact /\ [][NextArtifact]_vars

\* ------------------------------------------------------------- properties
\* the two files hold the index and the mapping of the records the last
\* cursor loop of the build yielded, row for row
BuildArtifactsInLockstep ==
    /\ indexFile.exists
    /\ mappingFile.exists
    /\ indexFile.ntotal = Len(buildDocs)
    /\ Cardinality(DOMAIN load_mapping(mappingFile)) = indexFile.ntotal
    /\ DOMAIN load_mapping(mappingFile) = Keys(indexFile.ntotal)
    /\ \A i \in 0..(indexFile.ntotal - 1) :
         /\ load_mapping(mappingFile)[str(i)].kind = "dict"
         /\ load_mapping(mappingFile)[str(i)].patient_id = buildDocs[i + 1].patient_id
         /\ read_index(indexFile).rows[i + 1] = normalize_L2(buildDocs[i + 1].embedding)

\* C1: the step that completes a successful build leaves a mapping file with
\* exactly one entry per row of the index file, keyed 0..N-1, entry i naming
\* the i-th record the cursor yielded, whose vector is row i
C1_BuildCompletesInLockstep ==
    [][(buildPc = "wroteIndex" /\ buildPc' = "done" /\ buildExit' = "zero")
          => BuildArtifactsInLockstep']_vars

C1_Witness ==
    /\ buildPc = "done" /\ buildExit = "zero"
    /\ Len(buildDocs) >= 2
    /\ mappingFile.exists /\ mappingFile.writer = "build" /\ mappingFile.gen = builds
    /\ DOMAIN load_mapping(mappingFile) = Keys(Len(buildDocs))

\* C2: a query that has loaded an index and a mapping whose entry count differs
\* from the index row count fails and returns no results
C2_CountMismatchFailsLoad ==
    (qPc = "done" /\ qMapSrc.writer # "none"
        /\ qIndex.ntotal # Cardinality(DOMAIN qMap))
    => (qOutcome = "error" /\ qExit = "nonzero" /\ results = <<>>)

\* C3: the index and the mapping a query has read were written by the same
\* run of the build
C3_SameGeneration ==
    qMapSrc.writer = "build" => qIndex.gen = qMapSrc.gen

\* C4: between runs, once a build has completed, the mapping file has one
\* entry per row of the index file and entry i names the record of row i
C4_MappingStaysInLockstep ==
    (EmbedAtRest /\ BuildAtRest /\ QueryAtRest
        /\ buildExit = "zero" /\ buildDocs # <<>>)
    => BuildArtifactsInLockstep

\* C5: no entry of the result list carries the query's own identifier
C5_NoSelfInResults ==
    \A n \in 1..Len(results) : results[n].patient_id # qId

C5_Witness ==
    /\ qOutcome = "ok"
    /\ results # <<>>
    /\ \E n \in 1..Len(qHits) :
         /\ ~Unmapped(qMap, qHits[n])
         /\ qMap[str(qHits[n].row)].patient_id = qId

\* C6: the result list has at most k = 5 entries
C6_AtMostTopK ==
    Len(results) <= SEARCH_K - 1

\* C7: the result list is ordered by non-increasing score and, among equal
\* scores, by strictly increasing row
C7_OrderedByScoreThenRow ==
    \A m, n \in 1..Len(results) :
        m < n => \/ results[m].score > results[n].score
                 \/ /\ results[m].score = results[n].score
                    /\ results[m].row < results[n].row

\* every row the index returned is mapped to the query's own identifier
OnlySelfMatches ==
    \A n \in 1..Len(qHits) :
        qHits[n].row # -1 =>
            /\ ~Unmapped(qMap, qHits[n])
            /\ qMap[str(qHits[n].row)].patient_id = qId

\* C8: a query whose index returned only self-matches ends normally with an
\* empty result list
C8_OnlySelfMatchesGivesEmpty ==
    (qPc = "done" /\ qHits # NoHits /\ OnlySelfMatches)
    => (qOutcome = "ok" /\ qExit = "zero" /\ results = <<>>)

C8_Witness ==
    /\ qPc = "done" /\ qHits # NoHits
    /\ qHits[1].row = 0 /\ qHits[2].row = -1
    /\ OnlySelfMatches
    /\ qOutcome = "ok" /\ results = <<>>

\* the query identifier has no record, or its (first) record has no embedding
C9_NoStoredVector ==
    LET hit == {n \in 1..Len(store) : store[n].patient_id = qId}
    IN  \/ hit = {}
        \/ ~store[CHOOSE n \in hit : \A m \in hit : n <= m].has_embedding

\* C9: a query for an identifier without stored vector reports not-found, exits
\* zero, returns no rows and opens neither file
C9_NotFoundEndsQuery ==
    (qPc # "idle" /\ C9_NoStoredVector)
    => (qPc = "done" /\ qOutcome = "notfound" /\ qExit = "zero"
        /\ results = <<>> /\ qRead = {})

C9_Witness ==
    /\ qOutcome = "notfound"
    /\ C9_NoStoredVector
    /\ indexFile.exists /\ mappingFile.exists

\* C10: a build that found no record with an embedding exits non-zero
C10_EmptyBuildExitsNonZero ==
    (buildPc = "done" /\ builds > 0 /\ buildDocs = <<>>) => buildExit = "nonzero"

\* the sum of component c over the real tokens of a text
TokenSum(text, c) == SumSeq([t \in 1..Len(text) |-> text[t][c]])

\* C12: each vector of a batch is the sum of the rows of its own real tokens
\* over their number (to the unit), whatever the other texts and the padding;
\* a text of one token gives that token's row
C12_MaskedMeanPerText ==
    embPc = "update" =>
        /\ Len(embVectors) = Len(Batch(embI))
        /\ \A j \in 1..Len(embVectors) :
             LET text == Batch(embI)[j].sentence
                 n == Len(text)
             IN  /\ Len(embVectors[j]) = Len(text[1])
                 /\ \A c \in 1..Len(embVectors[j]) :
                      /\ embVectors[j][c] * n <= TokenSum(text, c)
                      /\ TokenSum(text, c) < (embVectors[j][c] + 1) * n
                 /\ n = 1 => embVectors[j] = text[1]

C12_Witness ==
    /\ embPc = "update"
    /\ \E j, k \in 1..Len(embVectors) :
         /\ Len(Batch(embI)[j].sentence) = 1
         /\ Len(Batch(embI)[k].sentence) = MaxLen([n \in 1..Len(Batch(embI)) |->
                                                     Batch(embI)[n].sentence])
         /\ Len(Batch(embI)[k].sentence) > 1

\* the update of the input at position n has been issued
Issued(n) ==
    /\ str(n - 1) \in DOMAIN embMapping
    /\ HasDoc(patient_data[n].patient_id)
         => find_one(patient_data[n].patient_id).has_embedding

\* C15: while the vectors of the batch that starts at embI are being stored,
\* every update of the earlier batches has been issued, and the batch has
\* between 1 and BATCH_SIZE texts
C15_BatchesInSequence ==
    embPc = "update" =>
        /\ \A n \in 1..embI : Issued(n)
        /\ Len(embVectors) >= 1
        /\ Len(embVectors) <= BATCH_SIZE

C15_Witness ==
    /\ embPc = "update" /\ embJ = 0
    /\ embI = BATCH_SIZE
    /\ Len(embVectors) >= 2

\* the exact mean of the real tokens of a text
TokenMean(text) == [c \in 1..Len(text[1]) |-> TokenSum(text, c) \div Len(text)]

\* C16: after the loop the mapping keys are 0..N-1, key p-1 names the input
\* at position p, and every record holds the vector of the last input that
\* carries its identifier
C16_OrdinalIsPosition ==
    embPc \in {"save", "done"} =>
        /\ DOMAIN embMapping = Keys(Len(patient_data))
        /\ \A p \in 1..Len(patient_data) :
             /\ embMapping[str(p - 1)].vector_id = VectorIdOf(patient_data[p].patient_id)
             /\ (/\ HasDoc(patient_data[p].patient_id)
                 /\ \A q \in (p + 1)..Len(patient_data) :
                      patient_data[q].patient_id # patient_data[p].patient_id)
                => find_one(patient_data[p].patient_id).embedding
                     = TokenMean(patient_data[p].sentence)

C16_Witness ==
    /\ embPc = "done"
    /\ Len(patient_data) > BATCH_SIZE
    /\ mappingFile.exists
    /\ DOMAIN embMapping = Keys(Len(patient_data))

\* C17: after a completed run every identifier with an ordinal has a stored
\* embedding, and the mapping has as many entries as the build will read
C17_MappedMeansStored ==
    embPc = "done" =>
        /\ \A p \in 1..Len(patient_data) :
             /\ HasDoc(patient_data[p].patient_id)
             /\ find_one(patient_data[p].patient_id).has_embedding
        /\ Cardinality(DOMAIN embMapping) = Len(Cursor(store))

\* the vectors the cursor loop collected are not all of one dimension
MixedDims(embeddings) ==
    \E i, j \in 1..Len(embeddings) : Len(embeddings[i]) # Len(embeddings[j])

\* the current run of the build has met an input failure
InputFailure ==
    /\ builds > 0
    /\ \/ buildDocs = <<>>
       \/ MixedDims(buildEmb)
       \/ buildExit = "nonzero"

\* C11: a run of the build that finds no embeddings, whose cursor raises or
\* whose vectors differ in dimension has written neither file
C11_FailedBuildWritesNothing ==
    InputFailure =>
        /\ indexFile.exists => indexFile.gen # builds
        /\ mappingFile.exists => mappingFile.gen # builds

C11_Witness ==
    /\ buildPc = "done" /\ buildExit = "nonzero"
    /\ MixedDims(buildEmb)
    /\ indexFile.exists /\ mappingFile.exists

\* C13: the vector a query searches with equals every row that the build
\* made from the same stored embedding, a zero embedding included
C13_SameNormalization ==
    (qPc = "done" /\ search_vector # NoVector /\ qIndex.gen >= 1) =>
        \A i \in 1..qIndex.ntotal :
            Cursor(store)[i].embedding = qVec => qIndex.rows[i] = search_vector

C13_Witness ==
    /\ qPc = "done" /\ qIndex.gen >= 1
    /\ qVec = <<6, 8>>
    /\ \E i, j \in 1..qIndex.ntotal :
         /\ Cursor(store)[i].patient_id = qId
         /\ qIndex.rows[i] = search_vector
         /\ Cursor(store)[j].embedding = <<0, 0>>

====
